---- MODULE Spec2Model ----
(***************************************************************************)
(* Model of structured_database.py: the notebook-style script that fetches *)
(* the USGS and ISC catalogues, standardizes and concatenates them, stores *)
(* them in the SQLite table "earthquakes", queries the table, and finally  *)
(* calls main(), which repeats the write path (--fetch) or runs a query    *)
(* (--query).                                                              *)
(*                                                                         *)
(* One behaviour is a series of process runs of the script against the     *)
(* same database file.  pc is the line the process is about to execute.    *)
(*                                                                         *)
(* Cell values are pairs <<kind, n>>:                                      *)
(*   <<"float", n>>   the float n/10          <<"nan", 0>>   float NaN      *)
(*   <<"null", 0>>    JSON null / SQL NULL    <<"str", n>>   the text of    *)
(*   the decimal number n/10                  <<"nanstr", 0>> the text "nan"*)
(*   <<"badstr", 0>>  a text that is no number                             *)
(*   <<"ms", t>>      epoch milliseconds      <<"timestr", t>> time text    *)
(*   <<"Timestamp", t>>, <<"NaT", 0>>         pandas timestamps            *)
(*   <<"isoT", t>>    text of Timestamp.isoformat()                        *)
(*   <<"isoSp", t>>   text of the sqlite3 datetime adapter (isoformat(" "))*)
(*   <<"text", 0>>    the text "NaT"                                       *)
(***************************************************************************)
EXTENDS Integers, Sequences, FiniteSets, TLC

MaxA == 2
MaxB == 2
MaxStored == 1

VARIABLES
    pc,        \* the line the process executes next, "exit" when it has ended
    args,      \* the parsed command line
    exc,       \* the uncaught exception that ended the process, or "none"
    usgs_data, isc_data, usgs_data_clean, isc_data_clean, combined_data,
               \* the module-level frames of the same names
    main,      \* the locals of main() of the same names
    i,         \* how many rows the running for loop has consumed
    conn,      \* the connection: "closed" or "open"
    disk,      \* the committed content of seismological_data.db
    work,      \* the content as the connection sees it, uncommitted rows included
    results,   \* the rows of the last fetchall()
    log,       \* history: the cursor.execute(INSERT) calls of this process
    commits    \* history: the conn.commit() calls of this process

vars == <<pc, args, exc, usgs_data, isc_data, usgs_data_clean,
          isc_data_clean, combined_data, main, i, conn, disk, work, results,
          log, commits>>

\* ------------------------------------------------------------------ data

UsgsColumns == {"properties.time", "properties.mag", "geometry.coordinates"}
IscHeader == {"Time", "Magnitude", "Longitude", "Latitude"}
StdColumns == {"time", "magnitude", "longitude", "latitude"}
SchemaColumns == <<"id", "time", "magnitude", "longitude", "latitude", "source">>

\* The features the USGS endpoint may return.
Features ==
    { [c \in UsgsColumns |->
         CASE c = "properties.time" -> <<"ms", t>>
           [] c = "properties.mag" -> m
           [] OTHER -> <<10, 20>>] :
      t \in {2}, m \in {<<"float", 62>>, <<"null", 0>>} }

\* The data lines the ISC endpoint may return, split at '|'.
Lines ==
    { [c \in IscHeader |->
         CASE c = "Time" -> <<"timestr", 1>>
           [] c = "Magnitude" -> m
           [] c = "Longitude" -> <<"str", 30>>
           [] OTHER -> <<"str", 40>>] :
      m \in {<<"str", 60>>, <<"nanstr", 0>>, <<"badstr", 0>>} }

SeqsUpTo(S, n) == UNION { [1..k -> S] : k \in 0..n }

\* The command lines: --fetch, --query <predicate>, or no flag.
Predicates == {"1=1", "magnitude > 6.0", "magnitud > 6.0"}
ArgChoices ==
    {[fetch |-> TRUE, query |-> ""]}
    \cup {[fetch |-> FALSE, query |-> q] : q \in Predicates \cup {""}}

\* ---------------------------------------------------------- data frames

\* A DataFrame: its column labels, its index labels and its rows.
Frame(cols, index, rows) == [columns |-> cols, index |-> index, rows |-> rows]
NoFrame == Frame({}, <<>>, <<>>)
RangeIndex(n) == [k \in 1..n |-> k - 1]
Ok(v) == [exc |-> "none", val |-> v]
Raise(e) == [exc |-> e, val |-> NoFrame]

fetch_usgs_data(features) ==
    Frame(IF features = <<>> THEN {} ELSE UsgsColumns,
          RangeIndex(Len(features)), features)

fetch_isc_data(lines) == Frame(IscHeader, RangeIndex(Len(lines)), lines)

to_datetime(v) ==
    CASE v[1] \in {"ms", "timestr"} -> <<"Timestamp", v[2]>>
      [] OTHER -> <<"NaT", 0>>

CanFloat(v) == v[1] # "badstr"
astype_float(v) ==
    CASE v[1] \in {"str", "float"} -> <<"float", v[2]>>
      [] OTHER -> <<"nan", 0>>

\* A JSON number or null as pandas holds it in a float column.
mag_copy(v) == IF v[1] = "null" THEN <<"nan", 0>> ELSE v

Project(df, cols) ==
    Frame(cols, df.index,
          [k \in 1..Len(df.rows) |-> [c \in cols |-> df.rows[k][c]]])

usgs_added(df) ==
    Frame(df.columns \cup StdColumns, df.index,
          [k \in 1..Len(df.rows) |->
             [c \in df.columns \cup StdColumns |->
                CASE c = "time" -> to_datetime(df.rows[k]["properties.time"])
                  [] c = "magnitude" -> mag_copy(df.rows[k]["properties.mag"])
                  [] c = "longitude" ->
                       <<"float", df.rows[k]["geometry.coordinates"][1]>>
                  [] c = "latitude" ->
                       <<"float", df.rows[k]["geometry.coordinates"][2]>>
                  [] OTHER -> df.rows[k][c]]])

standardize_usgs_data(df) ==
    IF ~(UsgsColumns \subseteq df.columns) THEN Raise("KeyError")
    ELSE IF \E k \in 1..Len(df.rows) :
               Len(df.rows[k]["geometry.coordinates"]) < 2
         THEN Raise("IndexError")
    ELSE Ok(Project(usgs_added(df), StdColumns))

isc_added(df) ==
    Frame(df.columns \cup StdColumns, df.index,
          [k \in 1..Len(df.rows) |->
             [c \in df.columns \cup StdColumns |->
                CASE c = "time" -> to_datetime(df.rows[k]["Time"])
                  [] c = "magnitude" -> astype_float(df.rows[k]["Magnitude"])
                  [] c = "longitude" -> astype_float(df.rows[k]["Longitude"])
                  [] c = "latitude" -> astype_float(df.rows[k]["Latitude"])
                  [] OTHER -> df.rows[k][c]]])

standardize_isc_data(df) ==
    IF ~(IscHeader \subseteq df.columns) THEN Raise("KeyError")
    ELSE IF \E k \in 1..Len(df.rows) :
               \E c \in {"Magnitude", "Longitude", "Latitude"} :
                   ~CanFloat(df.rows[k][c])
         THEN Raise("ValueError")
    ELSE Ok(Project(isc_added(df), StdColumns))

concat_reversed(a, b) ==
    Frame(a.columns \cup b.columns, RangeIndex(Len(a.rows) + Len(b.rows)),
          b.rows \o a.rows)

concat(a, b) ==
    Frame(a.columns \cup b.columns, RangeIndex(Len(a.rows) + Len(b.rows)),
          a.rows \o b.rows)

IsNa(v) == v[1] \in {"nan", "NaT", "null"}

RECURSIVE KeepIdx(_, _, _)
KeepIdx(df, subset, k) ==
    IF k > Len(df.rows) THEN <<>>
    ELSE (IF \E c \in subset : IsNa(df.rows[k][c]) THEN <<>> ELSE <<k>>)
         \o KeepIdx(df, subset, k + 1)

dropna(df, subset) ==
    LET keep == KeepIdx(df, subset, 1)
    IN  Frame(df.columns, [j \in 1..Len(keep) |-> df.index[keep[j]]],
              [j \in 1..Len(keep) |-> df.rows[keep[j]]])

isoformat(ts) == IF ts[1] = "Timestamp" THEN <<"isoT", ts[2]>> ELSE <<"text", 0>>
adapt_datetime(ts) == <<"isoSp", ts[2]>>

\* What SQLite stores for a bound float: NaN is stored as NULL.
bind_float(v) == IF v[1] = "float" THEN v ELSE <<"null", 0>>

\* ------------------------------------------------------------ database

EmptyDb == [exists |-> FALSE, schema |-> <<>>, rows |-> <<>>, seq |-> 0]

create_table_replacing(db) ==
    [exists |-> TRUE, schema |-> SchemaColumns, rows |-> <<>>, seq |-> 0]

create_table_if_not_exists(db) ==
    IF db.exists THEN db
    ELSE [db EXCEPT !.exists = TRUE, !.schema = SchemaColumns]

insert_row_no_sequence(db, t, m, lon, lat, src) ==
    [db EXCEPT !.rows = Append(db.rows,
                   [id |-> db.seq + 1, time |-> t, magnitude |-> bind_float(m),
                    longitude |-> bind_float(lon), latitude |-> bind_float(lat),
                    source |-> src])]

\* INSERT with AUTOINCREMENT: the id is one more than the largest id the
\* table ever held (sqlite_sequence).
insert_row(db, t, m, lon, lat, src) ==
    [db EXCEPT !.seq = db.seq + 1,
               !.rows = Append(db.rows,
                   [id |-> db.seq + 1, time |-> t, magnitude |-> bind_float(m),
                    longitude |-> bind_float(lon), latitude |-> bind_float(lat),
                    source |-> src])]

Matches_inclusive(p, r) ==
    CASE p = "1=1" -> TRUE
      [] p = "magnitude > 6.0" -> r.magnitude[1] = "float" /\ r.magnitude[2] >= 60
      [] OTHER -> FALSE

Matches(p, r) ==
    CASE p = "1=1" -> TRUE
      [] p = "magnitude > 6.0" -> r.magnitude[1] = "float" /\ r.magnitude[2] > 60
      [] OTHER -> FALSE

ValidPredicate(p) == p \in {"1=1", "magnitude > 6.0"}

select_where(db, p) == SelectSeq(db.rows, LAMBDA r : Matches(p, r))

\* ---------------------------------------------------------------- state

NoMain == [usgs_data |-> NoFrame, isc_data |-> NoFrame,
           usgs_data_clean |-> NoFrame, isc_data_clean |-> NoFrame,
           combined_data |-> NoFrame]

Init ==
    /\ pc = "exit"
    /\ args = [fetch |-> FALSE, query |-> ""]
    /\ exc = "none"
    /\ usgs_data = NoFrame /\ isc_data = NoFrame
    /\ usgs_data_clean = NoFrame /\ isc_data_clean = NoFrame
    /\ combined_data = NoFrame
    /\ main = NoMain
    /\ i = 0
    /\ conn = "closed"
    /\ disk = EmptyDb
    /\ work = EmptyDb
    /\ results = <<>>
    /\ log = <<>>
    /\ commits = 0

globals == <<usgs_data, isc_data, usgs_data_clean, isc_data_clean, combined_data>>
store == <<conn, disk, work>>

\* An uncaught exception ends the process: the connection is dropped without
\* a commit, so SQLite rolls the open transaction back.
Abort(e) ==
    /\ pc' = "exit"
    /\ exc' = e
    /\ conn' = "closed"
    /\ work' = disk

LogEntry(batch, label, ok, id) ==
    [batch |-> batch, label |-> label, ok |-> ok, id |-> id]

\* A new process run of the script; runs are explored while the table holds
\* at most MaxStored rows.
Start ==
    /\ pc = "exit"
    /\ Len(disk.rows) <= MaxStored
    /\ pc' = "L26"
    /\ exc' = "none"
    /\ args' = [fetch |-> FALSE, query |-> ""]
    /\ usgs_data' = NoFrame /\ isc_data' = NoFrame
    /\ usgs_data_clean' = NoFrame /\ isc_data_clean' = NoFrame
    /\ combined_data' = NoFrame
    /\ main' = NoMain
    /\ i' = 0 /\ results' = <<>> /\ log' = <<>> /\ commits' = 0
    /\ UNCHANGED store

\* line 26: usgs_data = fetch_usgs_data(...)
FetchUSGS ==
    /\ pc = "L26"
    /\ \E ok \in BOOLEAN :
         IF ok
         THEN /\ \E features \in SeqsUpTo(Features, MaxA) :
                    usgs_data' = fetch_usgs_data(features)
              /\ pc' = "L50"
              /\ UNCHANGED <<exc, store>>
         ELSE Abort("RequestException") /\ UNCHANGED <<usgs_data, disk>>
    /\ UNCHANGED <<args, isc_data, usgs_data_clean, isc_data_clean,
                   combined_data, main, i, results, log, commits>>

\* line 50: isc_data = fetch_isc_data(...)
FetchISC ==
    /\ pc = "L50"
    /\ \E ok \in BOOLEAN :
         IF ok
         THEN /\ \E lines \in SeqsUpTo(Lines, MaxB) :
                    isc_data' = fetch_isc_data(lines)
              /\ pc' = "L76"
              /\ UNCHANGED <<exc, store>>
         ELSE Abort("RequestException") /\ UNCHANGED <<isc_data, disk>>
    /\ UNCHANGED <<args, usgs_data, usgs_data_clean, isc_data_clean,
                   combined_data, main, i, results, log, commits>>

\* line 76: usgs_data_clean = standardize_usgs_data(usgs_data)
StandardizeUSGS ==
    /\ pc = "L76"
    /\ LET r == standardize_usgs_data(usgs_data)
       IN  IF r.exc = "none"
           THEN /\ usgs_data_clean' = r.val
                /\ usgs_data' = usgs_added(usgs_data)
                /\ pc' = "L77"
                /\ UNCHANGED <<exc, store>>
           ELSE Abort(r.exc) /\ UNCHANGED <<usgs_data, usgs_data_clean, disk>>
    /\ UNCHANGED <<args, isc_data, isc_data_clean, combined_data, main,
                   i, results, log, commits>>

\* line 77: isc_data_clean = standardize_isc_data(isc_data)
StandardizeISC ==
    /\ pc = "L77"
    /\ LET r == standardize_isc_data(isc_data)
       IN  IF r.exc = "none"
           THEN /\ isc_data_clean' = r.val
                /\ isc_data' = isc_added(isc_data)
                /\ pc' = "L80"
                /\ UNCHANGED <<exc, store>>
           ELSE Abort(r.exc) /\ UNCHANGED <<isc_data, isc_data_clean, disk>>
    /\ UNCHANGED <<args, usgs_data, usgs_data_clean, combined_data, main,
                   i, results, log, commits>>

\* line 80: combined_data = pd.concat([...], ignore_index=True)
Concat ==
    /\ pc = "L80"
    /\ combined_data' = concat(usgs_data_clean, isc_data_clean)
    /\ pc' = "L94"
    /\ UNCHANGED <<args, exc, usgs_data, isc_data, usgs_data_clean,
                   isc_data_clean, main, i, store, results, log, commits>>

\* lines 94-95: conn = sqlite3.connect(...)
Connect ==
    /\ pc = "L94"
    /\ conn' = "open"
    /\ work' = disk
    /\ pc' = "L98"
    /\ UNCHANGED <<args, exc, globals, main, i, disk, results, log,
                   commits>>

\* lines 98-107: CREATE TABLE IF NOT EXISTS earthquakes (...); the statement
\* runs outside a transaction, so it is durable at once.
CreateTable ==
    /\ pc = "L98"
    /\ IF conn = "open"
       THEN /\ work' = create_table_if_not_exists(work)
            /\ disk' = create_table_if_not_exists(disk)
            /\ pc' = "L116"
            /\ UNCHANGED <<exc, conn>>
       ELSE Abort("ProgrammingError") /\ UNCHANGED disk
    /\ i' = 0
    /\ UNCHANGED <<args, globals, main, results, log, commits>>

\* lines 116-120: one iteration of the USGS insert loop (no try/except).
InsertUSGS ==
    /\ pc = "L116"
    /\ i < Len(usgs_data_clean.rows)
    /\ LET row == usgs_data_clean.rows[i + 1]
           label == usgs_data_clean.index[i + 1]
       IN  \E ok \in BOOLEAN :
             IF ok /\ conn = "open" /\ work.exists
             THEN /\ work' = insert_row(work, isoformat(row["time"]),
                                        row["magnitude"], row["longitude"],
                                        row["latitude"], "USGS")
                  /\ log' = Append(log, LogEntry("USGS", label, TRUE, work.seq + 1))
                  /\ i' = i + 1
                  /\ UNCHANGED <<pc, exc, conn>>
             ELSE /\ Abort("sqlite3.Error")
                  /\ log' = Append(log, LogEntry("USGS", label, FALSE, 0))
                  /\ UNCHANGED i
    /\ UNCHANGED <<args, globals, main, disk, results, commits>>

\* line 125: isc_data_clean = isc_data_clean.dropna(subset=[...]), reached
\* when the USGS loop is exhausted.
DropNA ==
    /\ pc = "L116"
    /\ i >= Len(usgs_data_clean.rows)
    /\ isc_data_clean' = dropna(isc_data_clean, {"magnitude", "longitude", "latitude"})
    /\ i' = 0
    /\ pc' = "L136"
    /\ UNCHANGED <<args, exc, usgs_data, isc_data, usgs_data_clean,
                   combined_data, main, store, results, log, commits>>

\* lines 136-144: one iteration of the ISC insert loop; an exception of the
\* insert is caught, printed, and the loop goes on.
InsertISC ==
    /\ pc = "L136"
    /\ i < Len(isc_data_clean.rows)
    /\ LET row == isc_data_clean.rows[i + 1]
           label == isc_data_clean.index[i + 1]
       IN  \E ok \in BOOLEAN :
             IF ok /\ conn = "open" /\ work.exists
             THEN /\ work' = insert_row(work, isoformat(row["time"]),
                                        row["magnitude"], row["longitude"],
                                        row["latitude"], "ISC")
                  /\ log' = Append(log, LogEntry("ISC", label, TRUE, work.seq + 1))
             ELSE /\ log' = Append(log, LogEntry("ISC", label, FALSE, 0))
                  /\ UNCHANGED work
    /\ i' = i + 1
    /\ UNCHANGED <<pc, args, exc, globals, main, conn, disk, results,
                   commits>>

\* line 147: conn.commit(), reached when the ISC loop is exhausted.
Commit ==
    /\ pc = "L136"
    /\ i >= Len(isc_data_clean.rows)
    /\ IF conn = "open"
       THEN /\ disk' = work
            /\ commits' = commits + 1
            /\ pc' = "L148"
            /\ UNCHANGED <<exc, conn, work>>
       ELSE Abort("ProgrammingError") /\ UNCHANGED <<disk, commits>>
    /\ UNCHANGED <<args, globals, main, i, results, log>>

\* line 148: conn.close()
Close ==
    /\ pc = "L148"
    /\ conn' = "closed"
    /\ work' = disk
    /\ pc' = "L157"
    /\ UNCHANGED <<args, exc, globals, main, i, disk, results, log,
                   commits>>

QueryConnect_missing ==
    /\ pc = "L157"
    /\ pc' = "L160"
    /\ UNCHANGED <<args, exc, globals, main, i, store, results, log, commits>>

\* lines 157-158: conn = sqlite3.connect(...)
QueryConnect ==
    /\ pc = "L157"
    /\ conn' = "open"
    /\ work' = disk
    /\ pc' = "L160"
    /\ UNCHANGED <<args, exc, globals, main, i, disk, results, log,
                   commits>>

\* lines 160-166: SELECT * FROM earthquakes WHERE magnitude > 6.0
Query ==
    /\ pc = "L160"
    /\ IF conn = "open" /\ work.exists
       THEN /\ results' = select_where(work, "magnitude > 6.0")
            /\ pc' = "L169"
            /\ UNCHANGED <<exc, store>>
       ELSE Abort("sqlite3.Error") /\ UNCHANGED <<results, disk>>
    /\ UNCHANGED <<args, globals, main, i, log, commits>>

\* line 169: conn.close()
QueryClose ==
    /\ pc = "L169"
    /\ conn' = "closed"
    /\ work' = disk
    /\ pc' = "L199"
    /\ UNCHANGED <<args, exc, globals, main, i, disk, results, log,
                   commits>>

\* lines 196-201, 221: main() parses the command line and branches.
ParseArgs ==
    /\ pc = "L199"
    /\ \E a \in ArgChoices :
         /\ args' = a
         /\ pc' = IF a.fetch THEN "L203"
                  ELSE IF a.query # "" THEN "L223" ELSE "exit"
    /\ UNCHANGED <<exc, globals, main, i, store, results, log, commits>>

\* line 203: usgs_data = fetch_usgs_data(...) (a local of main)
MainFetchUSGS ==
    /\ pc = "L203"
    /\ \E ok \in BOOLEAN :
         IF ok
         THEN /\ \E features \in SeqsUpTo(Features, MaxA) :
                    main' = [main EXCEPT !.usgs_data = fetch_usgs_data(features)]
              /\ pc' = "L204"
              /\ UNCHANGED <<exc, store>>
         ELSE Abort("RequestException") /\ UNCHANGED <<main, disk>>
    /\ UNCHANGED <<args, globals, i, results, log, commits>>

\* line 204: isc_data = fetch_isc_data(...)
MainFetchISC ==
    /\ pc = "L204"
    /\ \E ok \in BOOLEAN :
         IF ok
         THEN /\ \E lines \in SeqsUpTo(Lines, MaxB) :
                    main' = [main EXCEPT !.isc_data = fetch_isc_data(lines)]
              /\ pc' = "L205"
              /\ UNCHANGED <<exc, store>>
         ELSE Abort("RequestException") /\ UNCHANGED <<main, disk>>
    /\ UNCHANGED <<args, globals, i, results, log, commits>>

\* line 205: usgs_data_clean = standardize_usgs_data(usgs_data)
MainStandardizeUSGS ==
    /\ pc = "L205"
    /\ LET r == standardize_usgs_data(main.usgs_data)
       IN  IF r.exc = "none"
           THEN /\ main' = [main EXCEPT !.usgs_data_clean = r.val,
                                        !.usgs_data = usgs_added(main.usgs_data)]
                /\ pc' = "L206"
                /\ UNCHANGED <<exc, store>>
           ELSE Abort(r.exc) /\ UNCHANGED <<main, disk>>
    /\ UNCHANGED <<args, globals, i, results, log, commits>>

\* line 206: isc_data_clean = standardize_isc_data(isc_data)
MainStandardizeISC ==
    /\ pc = "L206"
    /\ LET r == standardize_isc_data(main.isc_data)
       IN  IF r.exc = "none"
           THEN /\ main' = [main EXCEPT !.isc_data_clean = r.val,
                                        !.isc_data = isc_added(main.isc_data)]
                /\ pc' = "L207"
                /\ UNCHANGED <<exc, store>>
           ELSE Abort(r.exc) /\ UNCHANGED <<main, disk>>
    /\ UNCHANGED <<args, globals, i, results, log, commits>>

\* line 207: combined_data = pd.concat([...], ignore_index=True)
MainConcat ==
    /\ pc = "L207"
    /\ main' = [main EXCEPT !.combined_data =
                    concat(main.usgs_data_clean, main.isc_data_clean)]
    /\ pc' = "L210"
    /\ UNCHANGED <<args, exc, globals, i, store, results, log, commits>>

\* lines 210-211: conn = sqlite3.connect(...)
MainConnect ==
    /\ pc = "L210"
    /\ conn' = "open"
    /\ work' = disk
    /\ i' = 0
    /\ pc' = "L212"
    /\ UNCHANGED <<args, exc, globals, main, disk, results, log, commits>>

\* The source value of row.get('source', 'Unknown') for a row of df.
row_get_source(df, k) ==
    IF "source" \in df.columns THEN df.rows[k]["source"] ELSE "Unknown"

\* lines 212-216: one iteration of main's insert loop over combined_data (no
\* dropna before it, no try/except).  row['time'] is handed to sqlite3 as a
\* timestamp object, not as text: the statement stores the row only if the
\* binding layer can convert it, and raises otherwise.
MainInsert ==
    /\ pc = "L212"
    /\ i < Len(main.combined_data.rows)
    /\ LET row == main.combined_data.rows[i + 1]
           label == main.combined_data.index[i + 1]
       IN  \E ok \in BOOLEAN :
             IF ok /\ conn = "open" /\ work.exists /\ row["time"][1] = "Timestamp"
             THEN /\ work' = insert_row(work, adapt_datetime(row["time"]),
                                        row["magnitude"], row["longitude"],
                                        row["latitude"],
                                        row_get_source(main.combined_data, i + 1))
                  /\ log' = Append(log, LogEntry("main", label, TRUE, work.seq + 1))
                  /\ i' = i + 1
                  /\ UNCHANGED <<pc, exc, conn>>
             ELSE /\ Abort("sqlite3.Error")
                  /\ log' = Append(log, LogEntry("main", label, FALSE, 0))
                  /\ UNCHANGED i
    /\ UNCHANGED <<args, globals, main, disk, results, commits>>

\* line 217: conn.commit(), reached when main's loop is exhausted.
MainCommit ==
    /\ pc = "L212"
    /\ i >= Len(main.combined_data.rows)
    /\ IF conn = "open"
       THEN /\ disk' = work
            /\ commits' = commits + 1
            /\ pc' = "L218"
            /\ UNCHANGED <<exc, conn, work>>
       ELSE Abort("ProgrammingError") /\ UNCHANGED <<disk, commits>>
    /\ UNCHANGED <<args, globals, main, i, results, log>>

\* lines 218-219: conn.close(); print(...)
MainClose ==
    /\ pc = "L218"
    /\ conn' = "closed"
    /\ work' = disk
    /\ pc' = "exit"
    /\ UNCHANGED <<args, exc, globals, main, i, disk, results, log,
                   commits>>

\* lines 223-224: conn = sqlite3.connect(...)
MainQueryConnect ==
    /\ pc = "L223"
    /\ conn' = "open"
    /\ work' = disk
    /\ pc' = "L225"
    /\ UNCHANGED <<args, exc, globals, main, i, disk, results, log,
                   commits>>

\* lines 225-228: SELECT * FROM earthquakes WHERE {args.query}
MainQuery ==
    /\ pc = "L225"
    /\ IF conn = "open" /\ work.exists /\ ValidPredicate(args.query)
       THEN /\ results' = select_where(work, args.query)
            /\ pc' = "L229"
            /\ UNCHANGED <<exc, store>>
       ELSE Abort("sqlite3.Error") /\ UNCHANGED <<results, disk>>
    /\ UNCHANGED <<args, globals, main, i, log, commits>>

\* line 229: conn.close()
MainQueryClose ==
    /\ pc = "L229"
    /\ conn' = "closed"
    /\ work' = disk
    /\ pc' = "exit"
    /\ UNCHANGED <<args, exc, globals, main, i, disk, results, log,
                   commits>>

\* ------------------------------------------------------------- properties

Range(f) == {f[k] : k \in DOMAIN f}
IsNull(v) == v[1] = "null"
InMain(e) == e.batch = "main"

\* The position in the merged sequence of the row an insert was made from.
MergedPos(e) ==
    IF e.batch = "ISC" THEN Len(usgs_data_clean.rows) + e.label ELSE e.label

\* The row of the merged frame an insert was made from.
SourceRow(e) ==
    IF InMain(e) THEN main.combined_data.rows[e.label + 1]
    ELSE combined_data.rows[MergedPos(e) + 1]

FromISC(e) ==
    \/ e.batch = "ISC"
    \/ InMain(e) /\ e.label >= Len(main.usgs_data_clean.rows)

\* C1: every persisted row has non-null time, magnitude, longitude and
\* latitude, whatever the sources returned.
C1_PersistedNonNull ==
    \A r \in Range(disk.rows) :
        ~IsNull(r.time) /\ ~IsNull(r.magnitude)
        /\ ~IsNull(r.longitude) /\ ~IsNull(r.latitude)

\* C2: a source-B row with an unparseable magnitude, longitude or latitude
\* never fails the run and is never handed to an insert loop, on either
\* write path.
C2_MalformedRowsDropped ==
    /\ exc # "ValueError"
    /\ \A k \in 1..Len(log) :
         FromISC(log[k]) =>
            \A c \in {"magnitude", "longitude", "latitude"} :
                ~IsNa(SourceRow(log[k])[c])

\* C3: a failing single-row insert is skipped: when the process ends, every
\* row whose insert succeeded is persisted and the batch was committed.
C3_FailedInsertSkipped ==
    (pc = "exit" /\ log # <<>>) =>
        /\ commits >= 1
        /\ \A k \in 1..Len(log) :
             log[k].ok => \E r \in Range(disk.rows) : r.id = log[k].id

IsConcat(c, a, b) ==
    /\ Len(c.rows) = Len(a.rows) + Len(b.rows)
    /\ \A k \in 1..Len(a.rows) : c.rows[k] = a.rows[k]
    /\ \A k \in 1..Len(b.rows) : c.rows[Len(a.rows) + k] = b.rows[k]

\* C5: the merged sequence is the m source-A rows followed by the n source-B
\* rows, each in its original order, and rows are inserted in the order of
\* the merged sequence, each stored row holding the values of its merged row.
C5_MergedOrder ==
    /\ pc \in {"L94", "L98", "L116"} =>
          IsConcat(combined_data, usgs_data_clean, isc_data_clean)
    /\ pc \in {"L210", "L212", "L218"} =>
          IsConcat(main.combined_data, main.usgs_data_clean, main.isc_data_clean)
    /\ \A j, k \in 1..Len(log) :
         (j < k /\ InMain(log[j]) = InMain(log[k])) =>
            /\ MergedPos(log[j]) < MergedPos(log[k])
            /\ (log[j].ok /\ log[k].ok) => log[j].id < log[k].id
    /\ \A k \in 1..Len(log) : \A r \in Range(work.rows) :
         (log[k].ok /\ r.id = log[k].id) =>
            /\ r.time[2] = SourceRow(log[k])["time"][2]
            /\ r.magnitude = bind_float(SourceRow(log[k])["magnitude"])
            /\ r.longitude = bind_float(SourceRow(log[k])["longitude"])
            /\ r.latitude = bind_float(SourceRow(log[k])["latitude"])

C5_Witness ==
    /\ pc = "L212" /\ i = 4
    /\ Len(main.usgs_data_clean.rows) = 2
    /\ Len(usgs_data_clean.rows) = 2
    /\ \E k \in 1..Len(log) : log[k].batch = "ISC" /\ log[k].ok /\ log[k].label = 1

IdsIncreasing(db) ==
    /\ \A j, k \in 1..Len(db.rows) : j < k => db.rows[j].id < db.rows[k].id
    /\ \A k \in 1..Len(db.rows) : db.rows[k].id <= db.seq

IsPrefix(s, t) == Len(s) <= Len(t) /\ \A k \in 1..Len(s) : s[k] = t[k]

InsertedRecord(e) ==
    [id |-> e.id,
     time |-> IF InMain(e) THEN adapt_datetime(SourceRow(e)["time"])
              ELSE isoformat(SourceRow(e)["time"]),
     magnitude |-> bind_float(SourceRow(e)["magnitude"]),
     longitude |-> bind_float(SourceRow(e)["longitude"]),
     latitude |-> bind_float(SourceRow(e)["latitude"]),
     source |-> IF InMain(e) THEN "Unknown" ELSE e.batch]

ExactlyTheRows(res, db, P(_)) ==
    /\ \A r \in Range(res) : r \in Range(db.rows) /\ P(r)
    /\ \A r \in Range(db.rows) : P(r) => r \in Range(res)
    /\ Cardinality(Range(res)) = Len(res)

Above6(r) == r.magnitude[1] = "float" /\ r.magnitude[2] > 60
AnyRow(r) == TRUE

\* C7: a query returns exactly the persisted rows that satisfy its predicate,
\* each once, as (id, time, magnitude, longitude, latitude, source) with the
\* values of the record that was inserted.
C7_QueryExact ==
    /\ pc = "L169" => ExactlyTheRows(results, disk, Above6)
    /\ (pc = "L229" /\ args.query = "magnitude > 6.0") =>
          ExactlyTheRows(results, disk, Above6)
    /\ (pc = "L229" /\ args.query = "1=1") =>
          ExactlyTheRows(results, disk, AnyRow)
    /\ pc \in {"L169", "L229"} =>
          \A r \in Range(results) :
              /\ DOMAIN r = Range(SchemaColumns)
              /\ \A k \in 1..Len(log) :
                   (log[k].ok /\ log[k].id = r.id) => r = InsertedRecord(log[k])

C7_Witness ==
    /\ pc = "L229" /\ args.query = "magnitude > 6.0"
    /\ results # <<>>
    /\ Len(results) < Len(disk.rows)
    /\ \E k \in 1..Len(log) : log[k].ok /\ log[k].id = results[1].id
    /\ \E r \in Range(disk.rows) : r.magnitude = <<"float", 60>>

\* C8: CREATE TABLE IF NOT EXISTS leaves one earthquakes table with the same
\* schema, and leaves an existing table and its rows as they are.
C8_InitializeIdempotent ==
    [][pc = "L98" =>
          /\ disk'.exists /\ disk'.schema = SchemaColumns
          /\ disk'.rows = disk.rows /\ work'.rows = work.rows
          /\ disk.exists => (disk' = disk /\ work' = work)]_vars

C8_Witness ==
    /\ pc = "L116" /\ i = 0 /\ log = <<>>
    /\ Len(disk.rows) >= 1

\* C9: when source A returns no feature and source B only its header line,
\* the write path ends without a failure.
C9_EmptyFetchCompletes ==
    /\ (/\ pc = "exit"
        /\ usgs_data.rows = <<>>
        /\ isc_data = fetch_isc_data(<<>>)) => exc = "none"
    /\ (/\ pc = "exit"
        /\ main.usgs_data.rows = <<>>
        /\ main.isc_data = fetch_isc_data(<<>>)) => exc = "none"

StoreOperationAt ==
    {"L98", "L116", "L136", "L148", "L160", "L169", "L212", "L218", "L225", "L229"}

\* C10: the Store is closed or open, and the process is at a table creation,
\* insert, commit, query or close only while the Store is open.
C10_OperationsWhileOpen ==
    /\ conn \in {"closed", "open"}
    /\ pc \in StoreOperationAt => conn = "open"
    /\ exc # "ProgrammingError"

C10_Witness ==
    /\ pc = "L229" /\ conn = "open"
    /\ commits = 1
    /\ results # <<>>

Next ==
    \/ Start \/ FetchUSGS \/ FetchISC \/ StandardizeUSGS \/ StandardizeISC
    \/ Concat \/ Connect \/ CreateTable \/ InsertUSGS \/ DropNA \/ InsertISC
    \/ Commit \/ Close \/ QueryConnect \/ Query \/ QueryClose \/ ParseArgs
    \/ MainFetchUSGS \/ MainFetchISC \/ MainStandardizeUSGS
    \/ MainStandardizeISC \/ MainConcat \/ MainConnect \/ MainInsert
    \/ MainCommit \/ MainClose \/ MainQueryConnect \/ MainQuery
    \/ MainQueryClose

Spec == Init /\ [][Next]_vars
====
